---------------------------- MODULE Spec2Model ----------------------------
(***************************************************************************)
(* Model of the diskcache-backed task queue of utilities/diskcache_backend *)
(* (Queue, Job, BaseRegistry, Worker, the statistics helpers) and of the   *)
(* job helpers of core/utils (requeue/enqueue/stop of an RQ job).          *)
(*                                                                         *)
(* A Job object is identified by the queue that holds it and by its id:    *)
(* q_jobs[q][id] is the object queue q maps id to.  Timestamps are         *)
(* abstracted to None / Now.                                               *)
(*                                                                         *)
(* Spec is every operation, on a system callers enqueue MaxDeque entries   *)
(* to and whose targets return or raise; SpecDrain is the producers and    *)
(* the draining workers, with MaxEntries entries and targets that may      *)
(* enqueue; SpecEnqueue is the producers alone; SpecFetch is producers     *)
(* that pass arguments for the target, and fetch_job; SpecStore is the     *)
(* producers, Queue.empty, delete_rq_job and restarts of the process;       *)
(* SpecStatus is producers and direct calls of Job.set_status;             *)
(* SpecRegistry is direct calls of add and remove on registries;           *)
(* SpecMonitor is prepare_job_execution and monitor_work_horse, the latter *)
(* statement by statement with interruptions; SpecClear is the producers   *)
(* and the clearing operations (Queue.empty, delete_rq_job, flushall) in   *)
(* one process; SpecBurst is producers and workers under weak fairness of  *)
(* the steps of work's loops.  A work(burst=True) call runs to its end     *)
(* before anything else is called (one execution context); what its        *)
(* targets enqueue meanwhile is part of its steps.                         *)
(***************************************************************************)
EXTENDS Integers, Sequences, FiniteSets, TLC

\* ---------------------------------------------------------------- bounds
MaxIds == 2            \* size of the pool of job ids
MaxDeque == 1          \* Spec: ordering entries (over all queues) callers enqueue up to
MaxEntries == 2        \* SpecDrain, SpecEnqueue: the same, with fewer operations

\* job ids are opaque strings ("j1", "j2", ...)
Ids == {"j" \o ToString(i) : i \in 1..MaxIds}

\* ------------------------------------------------------------- constants
None == "None"
Now == "now"

QUEUED == "queued"
STARTED == "started"
FINISHED == "finished"
FAILED == "failed"
DEFERRED == "deferred"
SCHEDULED == "scheduled"
STOPPED == "stopped"
CANCELED == "canceled"

JobStatus == {QUEUED, STARTED, FINISHED, FAILED, DEFERRED, SCHEDULED, STOPPED, CANCELED}
TerminalStatus == {FINISHED, FAILED, STOPPED, CANCELED}

\* QUEUES_LIST of django_rq/settings; the same three names are hard-coded in RQ_Job.fetch
QUEUES_LIST == <<"default", "high", "low">>
QueueNames == {QUEUES_LIST[i] : i \in 1..Len(QUEUES_LIST)}

\* the queues callers enqueue to and get workers for (the third stays empty)
CallerQueues == {"default", "high"}

\* the six BaseRegistry subclasses
RegistryTypes == {"FailedJobRegistry", "StartedJobRegistry", "FinishedJobRegistry",
                  "DeferredJobRegistry", "ScheduledJobRegistry", "CanceledJobRegistry"}
RegistryKeys == RegistryTypes \X QueueNames

\* job.func: a callable ("target"), or a value that is not callable
Funcs == {"target", "not_callable"}

\* What a call of a target does, decided when it is called: it returns the value
\* "1"; it enqueues one more job to a queue and returns None; or it raises an
\* exception e, with str(e) "boom" or "" (an exception built without a message).
PlainOutcomes ==
    {[kind |-> "return", value |-> "1", spawn |-> None],
     [kind |-> "raise", value |-> "boom", spawn |-> None],
     [kind |-> "raise", value |-> "", spawn |-> None]}

Outcomes ==
    PlainOutcomes
    \cup {[kind |-> "return", value |-> None, spawn |-> q] : q \in CallerQueues}

\* the values of the name argument of get_worker explored: absent, or one name
WorkerNames == {None, "default"}

\* the queue lists explored for a Worker built directly, Worker(queues, name=...)
WorkerQueueLists == {<<"default", "high">>}

\* the values of the depends_on keyword explored: absent, or a job id
DependsOn == {None, "j1"}

\* the positional and keyword arguments for the target explored (SpecFetch)
ArgsChoices == {<<>>, <<"a">>}
PayloadKwargs == {[k \in {} |-> "None"], [k \in {"x"} |-> "v"]}

\* the values of the job_id keyword explored (SpecFetch): absent, empty, or an id
JobIdKwargs == {"None", ""} \cup Ids

\* the registry classes explored by direct add / remove calls (SpecRegistry)
ExploredRegistryTypes == {"StartedJobRegistry", "FailedJobRegistry"}

VARIABLES
    QUEUES,       \* _QUEUES: the names that have a Queue object
    q_jobs,       \* Queue._jobs of every name: id -> Job (in memory)
    q_deque,      \* Queue._deque of every name: the durable ordering
    index,        \* _REGISTRIES: the durable diskcache.Index of every registry key
    WORKERS,      \* _WORKERS: worker name -> Worker
    used,         \* ids handed out so far (uuid4 never repeats one)
    pc,           \* "idle", or "work" while a Worker.work(burst=True) call runs
    cur,          \* the running work call: worker, queue position, snapshot left
    log,          \* the target invocations of the work call running or just returned
    last          \* the last operation called and what it returned

vars == <<QUEUES, q_jobs, q_deque, index, WORKERS, used, pc, cur, log, last>>

\* The part of the state the queue and registry code acts on, as one value.
Store == [QUEUES |-> QUEUES, jobs |-> q_jobs, deque |-> q_deque,
          index |-> index, used |-> used]

Commit(S) ==
    /\ QUEUES' = S.QUEUES
    /\ q_jobs' = S.jobs
    /\ q_deque' = S.deque
    /\ index' = S.index
    /\ used' = S.used

EmptyMap == [x \in {} |-> None]

\* m with key k (re)bound to v, as a Python dict assignment
Put(m, k, v) == [x \in DOMAIN m \cup {k} |-> IF x = k THEN v ELSE m[x]]

\* ------------------------------------------------------------------- Job
Job_init(id, origin, func) ==
    [id |-> id, origin |-> origin, status |-> QUEUED, created_at |-> Now,
     enqueued_at |-> None, started_at |-> None, ended_at |-> None,
     result |-> None, exc_info |-> None, func |-> func, scheduled_at |-> None,
     args |-> <<>>, kwargs |-> EmptyMap]

set_status(job, status) ==
    LET j == [job EXCEPT !.status = status] IN
    IF status = QUEUED THEN [j EXCEPT !.enqueued_at = Now]
    ELSE IF status = STARTED THEN [j EXCEPT !.started_at = Now]
    ELSE IF status \in {FINISHED, FAILED, STOPPED, CANCELED} THEN [j EXCEPT !.ended_at = Now]
    ELSE j

\* set_status that does nothing unless persist is true
Job_set_status_when_persisted(job, status, persist) ==
    IF persist THEN set_status(job, status) ELSE job

\* Job.set_status(status, persist=...) as callers call it: persist is not read
Job_set_status(job, status, persist) == set_status(job, status)

\* ----------------------------------------------------------------- Queue
\* get_queue that builds a new Queue object at every call: the mapping of the name
\* starts empty again (the ordering is the durable Deque of the name)
get_queue_new_each_time(S, name) ==
    [S EXCEPT !.QUEUES = @ \cup {name}, !.jobs[name] = EmptyMap]

get_queue(S, name) ==
    IF name \in S.QUEUES THEN S
    ELSE [S EXCEPT !.QUEUES = @ \cup {name}, !.jobs[name] = EmptyMap]

\* Queue.jobs: the Jobs of the ordering entries still in the mapping, as ids
RECURSIVE FilterIn(_, _)
FilterIn(seq, dom) ==
    IF seq = <<>> THEN <<>>
    ELSE IF Head(seq) \in dom THEN <<Head(seq)>> \o FilterIn(Tail(seq), dom)
    ELSE FilterIn(Tail(seq), dom)

\* Queue.jobs without the test `if job_id in self._jobs`: every ordering entry
Queue_jobs_unfiltered(S, q) == S.deque[q]

Queue_jobs(S, q) == FilterIn(S.deque[q], DOMAIN S.jobs[q])

Queue_count(S, q) == Cardinality(DOMAIN S.jobs[q])

\* uuid4().hex: an id never handed out before.  Ids are opaque, so the least unused
\* one stands for any of them.
FreshIds(S) ==
    LET free == {i \in 1..MaxIds : ("j" \o ToString(i)) \notin S.used}
    IN IF free = {} THEN {}
       ELSE {"j" \o ToString(CHOOSE i \in free : \A k \in free : i <= k)}

\* Queue.enqueue that gives every job the status QUEUED, whatever depends_on is
Queue_enqueue_always_queued(S, q, func, depends_on, id) ==
    [S EXCEPT !.jobs[q] = Put(@, id, set_status(Job_init(id, q, func), QUEUED)),
              !.deque[q] = Append(@, id),
              !.used = @ \cup {id}]

\* Queue.enqueue with the id already resolved (job_id or uuid4().hex)
Queue_enqueue(S, q, func, depends_on, id) ==
    LET job == set_status(Job_init(id, q, func),
                          IF depends_on # None THEN DEFERRED ELSE QUEUED)
    IN [S EXCEPT !.jobs[q] = Put(@, id, job),
                 !.deque[q] = Append(@, id),
                 !.used = @ \cup {id}]

\* Python truth of an optional string: None and '' are false
Truthy(v) == v # None /\ v # ""

\* kwargs.pop(key, None), the value
Pop(kwargs, key) == IF key \in DOMAIN kwargs THEN kwargs[key] ELSE None

\* kwargs after the pops of keys
Without(kwargs, keys) == [k \in DOMAIN kwargs \ keys |-> kwargs[k]]

\* the keyword arguments of a call enqueue(func, *args, **kwargs): those for the
\* target, and depends_on and job_id where the caller gives them
CallKwargs(payload, depends_on, job_id) ==
    LET opts == (IF depends_on # None THEN {"depends_on"} ELSE {})
                \cup (IF job_id # None THEN {"job_id"} ELSE {})
    IN [k \in DOMAIN payload \cup opts |->
          IF k \in DOMAIN payload THEN payload[k]
          ELSE IF k = "depends_on" THEN depends_on ELSE job_id]

\* Queue.enqueue that leaves depends_on and job_id among the job's kwargs and
\* never stores the positional arguments
Queue_enqueue_call_no_pop(S, q, func, args, kwargs, fresh) ==
    LET depends_on == Pop(kwargs, "depends_on")
        given == Pop(kwargs, "job_id")
        id == IF Truthy(given) THEN given ELSE fresh
        S1 == Queue_enqueue(S, q, func,
                            IF Truthy(depends_on) THEN depends_on ELSE None, id)
    IN [S1 EXCEPT !.jobs[q][id].kwargs = kwargs]

\* Queue.enqueue(func, *args, **kwargs) as called: depends_on and job_id are popped
\* from kwargs, fresh is the uuid4().hex used when job_id is absent or empty
Queue_enqueue_call(S, q, func, args, kwargs, fresh) ==
    LET depends_on == Pop(kwargs, "depends_on")
        given == Pop(kwargs, "job_id")
        id == IF Truthy(given) THEN given ELSE fresh
        S1 == Queue_enqueue(S, q, func,
                            IF Truthy(depends_on) THEN depends_on ELSE None, id)
    IN [S1 EXCEPT !.jobs[q][id].args = args,
                  !.jobs[q][id].kwargs = Without(kwargs, {"depends_on", "job_id"})]

\* the id that call gives its job
Queue_enqueue_call_id(kwargs, fresh) ==
    IF Truthy(Pop(kwargs, "job_id")) THEN Pop(kwargs, "job_id") ELSE fresh

\* Queue.fetch_job: self._jobs.get(job_id); found is FALSE when that is None
Queue_fetch_job(S, q, job_id) ==
    IF job_id \in DOMAIN S.jobs[q]
    THEN [found |-> TRUE, job |-> S.jobs[q][job_id]]
    ELSE [found |-> FALSE, job |-> None]

\* Queue.empty that clears the mapping and leaves the ordering
Queue_empty_mapping_only(S, q) == [S EXCEPT !.jobs[q] = EmptyMap]

\* Queue.empty: self._jobs.clear(); self._deque.clear()
Queue_empty(S, q) == [S EXCEPT !.jobs[q] = EmptyMap, !.deque[q] = <<>>]

\* -------------------------------------------------------------- Registry
\* a registry whose add files the id under its class for every queue name
Registry_add_every_queue(S, type, name, id) ==
    [S EXCEPT !.index = [k \in RegistryKeys |->
                            IF k[1] = type THEN S.index[k] \cup {id} ELSE S.index[k]]]

\* BaseRegistry(name) opens (and caches in _REGISTRIES) the Index of its class and
\* name; opening one changes no membership, so index holds every key from the start.
Registry_add(S, type, name, id) == [S EXCEPT !.index[<<type, name>>] = @ \cup {id}]

Registry_remove(S, type, name, id) == [S EXCEPT !.index[<<type, name>>] = @ \ {id}]

\* BaseRegistry.get_job_ids: the keys of the Index, each once
Registry_get_job_ids(S, type, name) == S.index[<<type, name>>]

Registry_contains(S, type, name, id) == id \in S.index[<<type, name>>]

Registry_len(S, type, name) == Cardinality(S.index[<<type, name>>])

Queue_enqueue_at(S, q, func, depends_on, id) ==
    LET S1 == Queue_enqueue(S, q, func, depends_on, id)
        S2 == [S1 EXCEPT !.jobs[q][id].scheduled_at = Now]
    IN Registry_add(S2, "ScheduledJobRegistry", q, id)

\* ------------------------------------------------------------------ Init
Idle == [w |-> None, qi |-> 0, snap |-> <<>>]
NoCall == [op |-> "none", q |-> None, id |-> None, arg |-> None]

Init ==
    /\ QUEUES = {}
    /\ q_jobs = [q \in QueueNames |-> EmptyMap]
    /\ q_deque = [q \in QueueNames |-> <<>>]
    /\ index = [k \in RegistryKeys |-> {}]
    /\ WORKERS = EmptyMap
    /\ used = {}
    /\ pc = "idle"
    /\ cur = Idle
    /\ log = <<>>
    /\ last = NoCall

\* CacheConnection.flushall in a process that was not restarted: every Queue is in
\* _QUEUES and every Index with a member is in _REGISTRIES, so the mapping and
\* ordering of every queue created and every registry are cleared.
Connection_flushall(S) ==
    [S EXCEPT !.jobs = [q \in QueueNames |-> IF q \in S.QUEUES THEN EmptyMap ELSE S.jobs[q]],
              !.deque = [q \in QueueNames |-> IF q \in S.QUEUES THEN <<>> ELSE S.deque[q]],
              !.index = [k \in RegistryKeys |-> {}]]

\* a restart that comes up with new, empty storage directories
Process_restart_fresh_storage(S) ==
    [S EXCEPT !.QUEUES = {}, !.jobs = [q \in QueueNames |-> EmptyMap],
              !.deque = [q \in QueueNames |-> <<>>],
              !.index = [k \in RegistryKeys |-> {}]]

\* The process ends and a new one imports the module: _QUEUES (with every Queue
\* and its _jobs) starts empty again; the Deque and Index directories under
\* _CACHE_DIR are the ones the old process wrote.
Process_restart(S) ==
    [S EXCEPT !.QUEUES = {}, !.jobs = [q \in QueueNames |-> EmptyMap]]

RECURSIVE SumLen(_, _)
SumLen(d, qs) ==
    IF qs = {} THEN 0
    ELSE LET q == CHOOSE x \in qs : TRUE IN Len(d[q]) + SumLen(d, qs \ {q})

\* the job_id keyword: absent (a fresh uuid), or the id of a job seen before
JobIdChoices(S) == FreshIds(S) \cup S.used

\* ---------------------------------------------------------------- Worker
Worker_init(queues, name) ==
    [name |-> name, queues |-> queues, state |-> "idle",
     successful_job_count |-> 0, failed_job_count |-> 0]

callable(func) == func # "not_callable"

\* what the target itself does to the queues while it runs
Target_effect(S, out) ==
    IF out.spawn # None
    THEN Queue_enqueue(get_queue(S, out.spawn), out.spawn, "target", None,
                       CHOOSE id \in FreshIds(S) : TRUE)
    ELSE S

\* the body of the loop of Worker.work for the snapshotted job q_jobs[q][id], whose
\* target, if called, does out
Work_job(S, q, id, out) ==
    LET job == S.jobs[q][id]
        S1 == IF callable(job.func) THEN Target_effect(S, out) ELSE S
        done == IF callable(job.func) /\ out.kind = "raise"
                THEN set_status([job EXCEPT !.exc_info = out.value], FAILED)
                ELSE set_status([job EXCEPT !.result = IF callable(job.func)
                                                      THEN out.value ELSE @],
                                FINISHED)
    IN [S1 EXCEPT !.jobs[q][id] = done]

\* the record of one pass of that loop: which job, how its target ended, and the
\* job (queue and id) the target enqueued while it ran, if it did
Invocation(S, job, out) ==
    [q |-> job.origin, id |-> job.id,
     outcome |-> IF ~callable(job.func) THEN "skipped"
                 ELSE IF out.kind = "return" THEN "returned" ELSE "raised",
     value |-> IF callable(job.func) THEN out.value ELSE None,
     spawn_q |-> IF callable(job.func) THEN out.spawn ELSE None,
     spawn_id |-> IF callable(job.func) /\ out.spawn # None
                  THEN CHOOSE id \in FreshIds(S) : TRUE ELSE None]

Worker_prepare_job_execution(S, q, id) ==
    LET S1 == [S EXCEPT !.jobs[q][id] = set_status(@, STARTED)]
    IN Registry_add(S1, "StartedJobRegistry", S1.jobs[q][id].origin, id)

\* monitor_work_horse(job, queue): job is q_jobs[q][id], queue is the Queue named name
Worker_monitor_work_horse(S, q, id, name) ==
    LET S1 == [S EXCEPT !.jobs[q][id] = set_status(@, FAILED)]
        S2 == Registry_remove(S1, "StartedJobRegistry", name, id)
    IN Registry_add(S2, "FailedJobRegistry", name, id)

Worker_count == Cardinality(DOMAIN WORKERS)

\* ------------------------------------------------------------ core/utils
\* RQ_Job.fetch: the first of the three queues that maps job_id; every queue it
\* looks at is created on the way.  q is None when NoSuchJobError is raised.
RECURSIVE RQ_Job_fetch(_, _, _)
RQ_Job_fetch(S, job_id, i) ==
    IF i > Len(QUEUES_LIST) THEN [S |-> S, q |-> None]
    ELSE LET S1 == get_queue(S, QUEUES_LIST[i])
         IN IF job_id \in DOMAIN S1.jobs[QUEUES_LIST[i]]
            THEN [S |-> S1, q |-> QUEUES_LIST[i]]
            ELSE RQ_Job_fetch(S1, job_id, i + 1)

\* requeue_rq_job, enqueue_rq_job (status 'queued') and stop_rq_job ('stopped')
rq_job_set_status(S, job_id, status) ==
    LET f == RQ_Job_fetch(S, job_id, 1)
    IN IF f.q = None THEN f.S
       ELSE [f.S EXCEPT !.jobs[f.q][job_id] = set_status(@, status)]

requeue_rq_job(S, job_id) == rq_job_set_status(S, job_id, QUEUED)
enqueue_rq_job(S, job_id) == rq_job_set_status(S, job_id, QUEUED)
stop_rq_job(S, job_id) == rq_job_set_status(S, job_id, STOPPED)

\* delete_rq_job: the job is deleted from the mapping of the first queue that
\* holds the id; the ordering keeps its entry.  Http404 when no queue holds it.
delete_rq_job(S, job_id) ==
    LET f == RQ_Job_fetch(S, job_id, 1)
    IN IF f.q = None THEN f.S
       ELSE [f.S EXCEPT !.jobs[f.q] = [id \in DOMAIN @ \ {job_id} |-> @[id]]]

\* ------------------------------------------------------------ statistics
get_queue_statistics(S, queue_name, queue_index) ==
    LET S1 == get_queue(S, queue_name)
    IN [name |-> queue_name,
        jobs |-> Queue_count(S1, queue_name),
        index |-> queue_index,
        workers |-> 0,
        finished_jobs |-> Registry_len(S1, "FinishedJobRegistry", queue_name),
        failed_jobs |-> Registry_len(S1, "FailedJobRegistry", queue_name),
        started_jobs |-> Registry_len(S1, "StartedJobRegistry", queue_name),
        deferred_jobs |-> Registry_len(S1, "DeferredJobRegistry", queue_name),
        scheduled_jobs |-> Registry_len(S1, "ScheduledJobRegistry", queue_name),
        canceled_jobs |-> Registry_len(S1, "CanceledJobRegistry", queue_name)]

RECURSIVE SumJobs(_, _)
SumJobs(queues_data, i) ==
    IF i = 0 THEN 0 ELSE queues_data[i].jobs + SumJobs(queues_data, i - 1)

\* QUEUES_MAP gives every name of QUEUES_LIST its position, counted from 0
get_statistics(S) ==
    LET queues_data == [i \in 1..Len(QUEUES_LIST) |->
                          get_queue_statistics(S, QUEUES_LIST[i], i - 1)]
    IN [workers |-> 1, queues |-> queues_data,
        jobs |-> SumJobs(queues_data, Len(QUEUES_LIST))]

\* get_queue for each of the first i names of a list
RECURSIVE get_queues_of(_, _, _)
get_queues_of(S, names, i) ==
    IF i = 0 THEN S ELSE get_queue(get_queues_of(S, names, i - 1), names[i])

\* --------------------------------------------------------------- actions
\* get_queue(q).enqueue(func, depends_on=..., job_id=...), while the orderings hold
\* fewer than n entries
EnqueueUpTo(n) ==
    /\ pc = "idle"
    /\ SumLen(q_deque, QueueNames) < n
    /\ \E q \in CallerQueues, func \in Funcs, depends_on \in DependsOn :
         /\ \E id \in JobIdChoices(Store) :
              /\ Commit(Queue_enqueue(get_queue(Store, q), q, func, depends_on, id))
              /\ last' = [op |-> "enqueue", q |-> q, id |-> id, arg |-> depends_on]
    /\ log' = <<>>
    /\ UNCHANGED <<WORKERS, pc, cur>>

\* get_queue(q).enqueue_at(schedule_at, func, depends_on=..., job_id=...)
EnqueueAtUpTo(n) ==
    /\ pc = "idle"
    /\ SumLen(q_deque, QueueNames) < n
    /\ \E q \in CallerQueues, func \in Funcs, depends_on \in DependsOn :
         /\ \E id \in JobIdChoices(Store) :
              /\ Commit(Queue_enqueue_at(get_queue(Store, q), q, func, depends_on, id))
              /\ last' = [op |-> "enqueue_at", q |-> q, id |-> id, arg |-> depends_on]
    /\ log' = <<>>
    /\ UNCHANGED <<WORKERS, pc, cur>>

Enqueue == EnqueueUpTo(MaxDeque)
EnqueueAt == EnqueueAtUpTo(MaxDeque)
EnqueueDrain == EnqueueUpTo(MaxEntries)
EnqueueAtDrain == EnqueueAtUpTo(MaxEntries)

\* get_worker that builds a Worker at every call
GetWorker_always_new ==
    /\ pc = "idle"
    /\ \E queue_name \in CallerQueues, name \in WorkerNames :
         LET worker_name == IF name # None THEN name ELSE queue_name IN
         /\ Commit(get_queue(Store, queue_name))
         /\ WORKERS' = Put(WORKERS, worker_name,
                           Worker_init(<<queue_name>>, worker_name))
         /\ last' = [op |-> "get_worker", q |-> queue_name, id |-> None,
                     arg |-> name]
    /\ log' = <<>>
    /\ UNCHANGED <<pc, cur>>

\* get_worker(queue_name, name)
GetWorker ==
    /\ pc = "idle"
    /\ \E queue_name \in CallerQueues, name \in WorkerNames :
         LET worker_name == IF name # None THEN name ELSE queue_name IN
         /\ Commit(get_queue(Store, queue_name))
         /\ WORKERS' = IF worker_name \in DOMAIN WORKERS THEN WORKERS
                       ELSE Put(WORKERS, worker_name,
                                Worker_init(<<queue_name>>, worker_name))
         /\ last' = [op |-> "get_worker", q |-> queue_name, id |-> None,
                     arg |-> name]
    /\ log' = <<>>
    /\ UNCHANGED <<pc, cur>>

\* Worker([get_queue(q) for q in queues], name=name): the new Worker takes the
\* name's place in _WORKERS
NewWorker ==
    /\ pc = "idle"
    /\ \E queues \in WorkerQueueLists, name \in WorkerNames \ {None} :
         /\ Commit(get_queues_of(Store, queues, Len(queues)))
         /\ WORKERS' = Put(WORKERS, name, Worker_init(queues, name))
         /\ last' = [op |-> "Worker", q |-> None, id |-> None, arg |-> name]
    /\ log' = <<>>
    /\ UNCHANGED <<pc, cur>>

\* the snapshot list(queue.jobs) of the i-th queue of worker w
Snapshot(S, w, i) == Queue_jobs(S, WORKERS[w].queues[i])

\* work that enters the loops whatever burst is
Work_ignoring_burst ==
    /\ pc = "idle"
    /\ \E w \in DOMAIN WORKERS, burst \in BOOLEAN :
         /\ last' = [op |-> "work", q |-> None, id |-> None,
                     arg |-> IF burst THEN "True" ELSE "False"]
         /\ pc' = "work"
         /\ cur' = [w |-> w, qi |-> 1, snap |-> Snapshot(Store, w, 1)]
         /\ log' = <<>>
    /\ UNCHANGED <<QUEUES, q_jobs, q_deque, index, WORKERS, used>>

\* worker.work(burst=...): without burst it returns at once; with burst it enters
\* the loop over the worker's queues, the first snapshot taken
Work ==
    /\ pc = "idle"
    /\ \E w \in DOMAIN WORKERS, burst \in BOOLEAN :
         /\ last' = [op |-> "work", q |-> None, id |-> None,
                     arg |-> IF burst THEN "True" ELSE "False"]
         /\ IF burst
            THEN /\ pc' = "work"
                 /\ cur' = [w |-> w, qi |-> 1, snap |-> Snapshot(Store, w, 1)]
                 /\ log' = <<>>
            ELSE /\ log' = <<>>
                 /\ UNCHANGED <<pc, cur>>
    /\ UNCHANGED <<QUEUES, q_jobs, q_deque, index, WORKERS, used>>

\* the inner loop iterating the live queue instead of a snapshot: what the target
\* appends to the queue being drained joins the jobs left to run
WorkJobWith_live_queue(outs) ==
    /\ pc = "work"
    /\ cur.snap # <<>>
    /\ LET q == WORKERS[cur.w].queues[cur.qi]
           id == Head(cur.snap)
           job == q_jobs[q][id]
       IN \E out \in (IF callable(job.func) THEN outs
                      ELSE {[kind |-> "return", value |-> None, spawn |-> None]}) :
            LET S1 == Work_job(Store, q, id, out) IN
            /\ out.spawn # None => FreshIds(Store) # {}
            /\ Commit(S1)
            /\ log' = Append(log, Invocation(Store, job, out))
            /\ cur' = [cur EXCEPT !.snap = Tail(@) \o SubSeq(S1.deque[q],
                                                              Len(q_deque[q]) + 1,
                                                              Len(S1.deque[q]))]
    /\ UNCHANGED <<WORKERS, pc, last>>

\* the inner loop without the except clause: an exception of a target ends the loops
WorkJobWith_abort_on_raise(outs) ==
    /\ pc = "work"
    /\ cur.snap # <<>>
    /\ LET q == WORKERS[cur.w].queues[cur.qi]
           id == Head(cur.snap)
           job == q_jobs[q][id]
       IN \E out \in (IF callable(job.func) THEN outs
                      ELSE {[kind |-> "return", value |-> None, spawn |-> None]}) :
            /\ out.spawn # None => FreshIds(Store) # {}
            /\ Commit(Work_job(Store, q, id, out))
            /\ log' = Append(log, Invocation(Store, job, out))
            /\ cur' = IF callable(job.func) /\ out.kind = "raise"
                      THEN [cur EXCEPT !.snap = <<>>, !.qi = Len(WORKERS[cur.w].queues)]
                      ELSE [cur EXCEPT !.snap = Tail(@)]
    /\ UNCHANGED <<WORKERS, pc, last>>

\* the inner loop taking the snapshotted jobs last first
WorkJobWith_last_first(outs) ==
    /\ pc = "work"
    /\ cur.snap # <<>>
    /\ LET q == WORKERS[cur.w].queues[cur.qi]
           id == cur.snap[Len(cur.snap)]
           job == q_jobs[q][id]
       IN \E out \in (IF callable(job.func) THEN outs
                      ELSE {[kind |-> "return", value |-> None, spawn |-> None]}) :
            /\ out.spawn # None => FreshIds(Store) # {}
            /\ Commit(Work_job(Store, q, id, out))
            /\ log' = Append(log, Invocation(Store, job, out))
            /\ cur' = [cur EXCEPT !.snap = SubSeq(@, 1, Len(@) - 1)]
    /\ UNCHANGED <<WORKERS, pc, last>>

\* one pass of the inner loop: the next snapshotted job, its target doing one of outs
WorkJobWith(outs) ==
    /\ pc = "work"
    /\ cur.snap # <<>>
    /\ LET q == WORKERS[cur.w].queues[cur.qi]
           id == Head(cur.snap)
           job == q_jobs[q][id]
       IN \E out \in (IF callable(job.func) THEN outs
                      ELSE {[kind |-> "return", value |-> None, spawn |-> None]}) :
            /\ out.spawn # None => FreshIds(Store) # {}
            /\ Commit(Work_job(Store, q, id, out))
            /\ log' = Append(log, Invocation(Store, job, out))
            /\ cur' = [cur EXCEPT !.snap = Tail(@)]
    /\ UNCHANGED <<WORKERS, pc, last>>

WorkJob == WorkJobWith(PlainOutcomes)
WorkJobDrain == WorkJobWith(Outcomes)

\* the snapshot is exhausted: on to the worker's next queue
WorkNextQueue ==
    /\ pc = "work"
    /\ cur.snap = <<>>
    /\ cur.qi < Len(WORKERS[cur.w].queues)
    /\ cur' = [cur EXCEPT !.qi = @ + 1, !.snap = Snapshot(Store, cur.w, cur.qi + 1)]
    /\ UNCHANGED <<QUEUES, q_jobs, q_deque, index, WORKERS, used, pc, log, last>>

\* the last queue is done: work returns
WorkReturn ==
    /\ pc = "work"
    /\ cur.snap = <<>>
    /\ cur.qi = Len(WORKERS[cur.w].queues)
    /\ pc' = "idle"
    /\ cur' = Idle
    /\ UNCHANGED <<QUEUES, q_jobs, q_deque, index, WORKERS, used, log, last>>

\* worker.prepare_job_execution(job), job being q_jobs[q][id]
PrepareJobExecution ==
    /\ pc = "idle"
    /\ DOMAIN WORKERS # {}
    /\ \E q \in QUEUES : \E id \in DOMAIN q_jobs[q] :
         /\ Commit(Worker_prepare_job_execution(Store, q, id))
         /\ last' = [op |-> "prepare_job_execution", q |-> q, id |-> id, arg |-> None]
    /\ log' = <<>>
    /\ UNCHANGED <<WORKERS, pc, cur>>

\* worker.monitor_work_horse(job, queue), job being q_jobs[q][id]
MonitorWorkHorse ==
    /\ pc = "idle"
    /\ DOMAIN WORKERS # {}
    /\ \E q \in QUEUES, queue \in QUEUES : \E id \in DOMAIN q_jobs[q] :
         /\ Commit(Worker_monitor_work_horse(Store, q, id, queue))
         /\ last' = [op |-> "monitor_work_horse", q |-> q, id |-> id, arg |-> None]
    /\ log' = <<>>
    /\ UNCHANGED <<WORKERS, pc, cur>>

\* monitor_work_horse statement by statement.  The call holds no lock and makes
\* three writes; pc is the statement it stands before, last holds its arguments
\* (q and id name the Job, arg the Queue passed).
\* the first statement done together with the two registry writes
MonitorSetStatus_with_registries ==
    /\ pc = "idle"
    /\ DOMAIN WORKERS # {}
    /\ \E q \in QUEUES, queue \in QUEUES : \E id \in DOMAIN q_jobs[q] :
         /\ Commit(Worker_monitor_work_horse(Store, q, id, queue))
         /\ last' = [op |-> "monitor_set_status", q |-> q, id |-> id, arg |-> queue]
    /\ pc' = "monitor_remove"
    /\ log' = <<>>
    /\ UNCHANGED <<WORKERS, cur>>

\* job.set_status(JobStatus.FAILED)
MonitorSetStatus ==
    /\ pc = "idle"
    /\ DOMAIN WORKERS # {}
    /\ \E q \in QUEUES, queue \in QUEUES : \E id \in DOMAIN q_jobs[q] :
         /\ Commit([Store EXCEPT !.jobs[q][id] = set_status(@, FAILED)])
         /\ last' = [op |-> "monitor_set_status", q |-> q, id |-> id, arg |-> queue]
    /\ pc' = "monitor_remove"
    /\ log' = <<>>
    /\ UNCHANGED <<WORKERS, cur>>

\* StartedJobRegistry(queue.name).remove(job.id)
MonitorRemoveStarted ==
    /\ pc = "monitor_remove"
    /\ Commit(Registry_remove(Store, "StartedJobRegistry", last.arg, last.id))
    /\ pc' = "monitor_add"
    /\ UNCHANGED <<WORKERS, cur, log, last>>

\* FailedJobRegistry(queue.name).add(job.id), and the call returns
MonitorAddFailed ==
    /\ pc = "monitor_add"
    /\ Commit(Registry_add(Store, "FailedJobRegistry", last.arg, last.id))
    /\ pc' = "idle"
    /\ last' = [last EXCEPT !.op = "monitor_work_horse"]
    /\ UNCHANGED <<WORKERS, cur, log>>

\* the call is abandoned between two statements (a signal, the process killed):
\* what it has written stays
MonitorInterrupted ==
    /\ pc \in {"monitor_remove", "monitor_add"}
    /\ pc' = "idle"
    /\ last' = [last EXCEPT !.op = "monitor_interrupted"]
    /\ UNCHANGED <<QUEUES, q_jobs, q_deque, index, WORKERS, used, cur, log>>

RequeueRqJob ==
    /\ pc = "idle"
    /\ \E job_id \in Ids :
         /\ Commit(requeue_rq_job(Store, job_id))
         /\ last' = [op |-> "requeue_rq_job", q |-> None, id |-> job_id, arg |-> None]
    /\ log' = <<>>
    /\ UNCHANGED <<WORKERS, pc, cur>>

EnqueueRqJob ==
    /\ pc = "idle"
    /\ \E job_id \in Ids :
         /\ Commit(enqueue_rq_job(Store, job_id))
         /\ last' = [op |-> "enqueue_rq_job", q |-> None, id |-> job_id, arg |-> None]
    /\ log' = <<>>
    /\ UNCHANGED <<WORKERS, pc, cur>>

StopRqJob ==
    /\ pc = "idle"
    /\ \E job_id \in Ids :
         /\ Commit(stop_rq_job(Store, job_id))
         /\ last' = [op |-> "stop_rq_job", q |-> None, id |-> job_id, arg |-> None]
    /\ log' = <<>>
    /\ UNCHANGED <<WORKERS, pc, cur>>

\* job.set_status(status, persist=persist) on the Job q_jobs[q][id]
SetStatus ==
    /\ pc = "idle"
    /\ \E q \in QUEUES : \E id \in DOMAIN q_jobs[q] :
         \E status \in JobStatus, persist \in BOOLEAN :
            /\ Commit([Store EXCEPT !.jobs[q][id] = Job_set_status(@, status, persist)])
            /\ last' = [op |-> "set_status", q |-> q, id |-> id,
                        arg |-> [status |-> status, persist |-> persist]]
    /\ log' = <<>>
    /\ UNCHANGED <<WORKERS, pc, cur>>

\* Registry(name).add(job_or_id): a Job gives its id, an id is taken as it is
RegistryAdd ==
    /\ pc = "idle"
    /\ \E type \in ExploredRegistryTypes, name \in CallerQueues, id \in Ids :
         /\ Commit(Registry_add(Store, type, name, id))
         /\ last' = [op |-> "registry_add", q |-> name, id |-> id, arg |-> type]
    /\ log' = <<>>
    /\ UNCHANGED <<WORKERS, pc, cur>>

\* Registry(name).remove(job_id)
RegistryRemove ==
    /\ pc = "idle"
    /\ \E type \in ExploredRegistryTypes, name \in CallerQueues, id \in Ids :
         /\ Commit(Registry_remove(Store, type, name, id))
         /\ last' = [op |-> "registry_remove", q |-> name, id |-> id, arg |-> type]
    /\ log' = <<>>
    /\ UNCHANGED <<WORKERS, pc, cur>>

DeleteRqJob ==
    /\ pc = "idle"
    /\ \E job_id \in Ids :
         /\ Commit(delete_rq_job(Store, job_id))
         /\ last' = [op |-> "delete_rq_job", q |-> None, id |-> job_id, arg |-> None]
    /\ log' = <<>>
    /\ UNCHANGED <<WORKERS, pc, cur>>

\* get_statistics(): the figures are get_statistics(Store); the call itself leaves
\* behind the Queue objects it created
GetStatistics ==
    /\ pc = "idle"
    /\ Commit(get_queues_of(Store, QUEUES_LIST, Len(QUEUES_LIST)))
    /\ last' = [op |-> "get_statistics", q |-> None, id |-> None, arg |-> None]
    /\ log' = <<>>
    /\ UNCHANGED <<WORKERS, pc, cur>>

\* get_queue(q).enqueue(func, *args, **kwargs) with arguments for the target; the
\* call is recorded with the arguments meant for the target
EnqueueCall ==
    /\ pc = "idle"
    /\ SumLen(q_deque, QueueNames) < MaxEntries
    /\ \E q \in CallerQueues, func \in Funcs, args \in ArgsChoices,
          payload \in PayloadKwargs, depends_on \in DependsOn, job_id \in JobIdKwargs :
         LET kwargs == CallKwargs(payload, depends_on, job_id)
             fresh == IF FreshIds(Store) = {} THEN None
                      ELSE CHOOSE id \in FreshIds(Store) : TRUE
         IN /\ Truthy(job_id) \/ fresh # None
            /\ Commit(Queue_enqueue_call(get_queue(Store, q), q, func, args, kwargs, fresh))
            /\ last' = [op |-> "enqueue", q |-> q,
                        id |-> Queue_enqueue_call_id(kwargs, fresh),
                        arg |-> [args |-> args, kwargs |-> payload]]
    /\ log' = <<>>
    /\ UNCHANGED <<WORKERS, pc, cur>>

\* fetch_job that takes the job out of the mapping (dict.pop for dict.get)
FetchJob_pop ==
    /\ pc = "idle"
    /\ \E q \in CallerQueues, job_id \in Ids :
         LET S1 == get_queue(Store, q) IN
         /\ Commit([S1 EXCEPT !.jobs[q] = [id \in DOMAIN @ \ {job_id} |-> @[id]]])
         /\ last' = [op |-> "fetch_job", q |-> q, id |-> job_id,
                     arg |-> Queue_fetch_job(S1, q, job_id)]
    /\ log' = <<>>
    /\ UNCHANGED <<WORKERS, pc, cur>>

\* get_queue(q).fetch_job(job_id)
FetchJob ==
    /\ pc = "idle"
    /\ \E q \in CallerQueues, job_id \in Ids :
         LET S1 == get_queue(Store, q) IN
         /\ Commit(S1)
         /\ last' = [op |-> "fetch_job", q |-> q, id |-> job_id,
                     arg |-> Queue_fetch_job(S1, q, job_id)]
    /\ log' = <<>>
    /\ UNCHANGED <<WORKERS, pc, cur>>

\* get_queue(q).empty()
EmptyQueue ==
    /\ pc = "idle"
    /\ \E q \in CallerQueues :
         /\ Commit(Queue_empty(get_queue(Store, q), q))
         /\ last' = [op |-> "empty", q |-> q, id |-> None, arg |-> None]
    /\ log' = <<>>
    /\ UNCHANGED <<WORKERS, pc, cur>>

\* connection.flushall()
Flushall ==
    /\ pc = "idle"
    /\ Commit(Connection_flushall(Store))
    /\ last' = [op |-> "flushall", q |-> None, id |-> None, arg |-> None]
    /\ log' = <<>>
    /\ UNCHANGED <<WORKERS, pc, cur>>

\* the process is restarted: the directories of queues and workers start empty
Restart ==
    /\ pc = "idle"
    /\ Commit(Process_restart(Store))
    /\ WORKERS' = EmptyMap
    /\ last' = [op |-> "restart", q |-> None, id |-> None, arg |-> None]
    /\ log' = <<>>
    /\ UNCHANGED <<pc, cur>>

Next ==
    \/ Enqueue
    \/ EnqueueAt
    \/ GetWorker
    \/ NewWorker
    \/ Work
    \/ WorkJob
    \/ WorkNextQueue
    \/ WorkReturn
    \/ PrepareJobExecution
    \/ MonitorWorkHorse
    \/ RequeueRqJob
    \/ EnqueueRqJob
    \/ StopRqJob
    \/ GetStatistics

Spec == Init /\ [][Next]_vars

\* producers and a draining worker only
NextDrain ==
    \/ EnqueueDrain
    \/ EnqueueAtDrain
    \/ GetWorker
    \/ NewWorker
    \/ Work
    \/ WorkJobDrain
    \/ WorkNextQueue
    \/ WorkReturn

SpecDrain == Init /\ [][NextDrain]_vars

\* producers only
NextEnqueue ==
    \/ EnqueueDrain
    \/ EnqueueAtDrain

SpecEnqueue == Init /\ [][NextEnqueue]_vars

\* producers that pass arguments, and lookups
NextFetch ==
    \/ EnqueueCall
    \/ FetchJob

SpecFetch == Init /\ [][NextFetch]_vars

\* producers, Queue.empty, delete_rq_job and restarts of the process
NextStore ==
    \/ EnqueueDrain
    \/ EnqueueAtDrain
    \/ EmptyQueue
    \/ DeleteRqJob
    \/ Restart

SpecStore == Init /\ [][NextStore]_vars

\* producers and direct calls of Job.set_status
NextStatus ==
    \/ Enqueue
    \/ EnqueueAt
    \/ SetStatus

SpecStatus == Init /\ [][NextStatus]_vars

\* direct calls of add and remove on registries
NextRegistry ==
    \/ RegistryAdd
    \/ RegistryRemove

SpecRegistry == Init /\ [][NextRegistry]_vars

\* the worker's two compound operations, monitor_work_horse statement by statement
NextMonitor ==
    \/ Enqueue
    \/ GetWorker
    \/ PrepareJobExecution
    \/ MonitorSetStatus
    \/ MonitorRemoveStarted
    \/ MonitorAddFailed
    \/ MonitorInterrupted

SpecMonitor == Init /\ [][NextMonitor]_vars

\* producers and the operations that clear storage, in one process
NextClear ==
    \/ EnqueueDrain
    \/ EnqueueAtDrain
    \/ EmptyQueue
    \/ DeleteRqJob
    \/ Flushall

SpecClear == Init /\ [][NextClear]_vars

\* producers and workers, with the loops of work going on: each pass of the inner
\* loop ends (the target returns or raises) and the loops take their next step
NextBurst ==
    \/ Enqueue
    \/ GetWorker
    \/ NewWorker
    \/ Work
    \/ WorkJobDrain
    \/ WorkNextQueue
    \/ WorkReturn

SpecBurst ==
    /\ Init
    /\ [][NextBurst]_vars
    /\ WF_vars(WorkJobDrain)
    /\ WF_vars(WorkNextQueue)
    /\ WF_vars(WorkReturn)

\* ================================================================ claims
\* a work(burst=True) call has just returned; log holds its target invocations
Returned == pc = "idle" /\ last.op = "work" /\ last.arg = "True"

\* log[i] is the last invocation, in this pass, of the job it names
LastInvocation(i) ==
    \A k \in (i + 1)..Len(log) : ~(log[k].q = log[i].q /\ log[k].id = log[i].id)

\* the registry class of a lifecycle phase; QUEUED and STOPPED have none
RegistryOf(status) ==
    CASE status = STARTED -> "StartedJobRegistry"
      [] status = FINISHED -> "FinishedJobRegistry"
      [] status = FAILED -> "FailedJobRegistry"
      [] status = DEFERRED -> "DeferredJobRegistry"
      [] status = SCHEDULED -> "ScheduledJobRegistry"
      [] status = CANCELED -> "CanceledJobRegistry"
      [] OTHER -> None

\* the statistics figures of queue q in the current state
StatsOf(q) ==
    LET st == get_statistics(Store)
    IN st.queues[CHOOSE i \in 1..Len(QUEUES_LIST) : QUEUES_LIST[i] = q]

\* C1: when work(burst=True) has returned, every job whose target (last) returned
\* normally is FINISHED with the returned value as result, and every job whose
\* target (last) raised is FAILED with an error text that is set and not empty.
C1_DrainOutcomes ==
    Returned =>
        \A i \in 1..Len(log) :
            LastInvocation(i) =>
                LET job == q_jobs[log[i].q][log[i].id] IN
                /\ log[i].outcome = "returned" =>
                       job.status = FINISHED /\ job.result = log[i].value
                /\ log[i].outcome = "raised" =>
                       job.status = FAILED /\ job.exc_info \notin {None, ""}

\* C2: when work(burst=True) has returned, the Failed Registry of the drained queue
\* holds the id of every job whose target raised during the pass.
C2_FailedRegistryHoldsRaised ==
    Returned =>
        \A i \in 1..Len(log) :
            log[i].outcome = "raised" =>
                log[i].id \in index[<<"FailedJobRegistry", log[i].q>>]

\* how many invocations of jobs of queue q ended with the given outcome
CountOutcome(q, outcome) ==
    Cardinality({i \in 1..Len(log) : log[i].q = q /\ log[i].outcome = outcome})

\* C3: after a drain that ran each of the N >= 1 jobs of queue q once, M of them
\* returning and N-M raising, get_statistics reports finished_jobs = M and
\* failed_jobs = N-M for q.
C3_StatisticsAccuracy ==
    Returned =>
        \A q \in QueueNames :
            LET M == CountOutcome(q, "returned")
                F == CountOutcome(q, "raised")
                N == Len(q_deque[q])
            IN (N >= 1 /\ M + F = N /\ Cardinality(DOMAIN q_jobs[q]) = N) =>
                   /\ StatsOf(q).finished_jobs = M
                   /\ StatsOf(q).failed_jobs = F

\* the step replaces the Job object under (q, id) by a newly enqueued one
Replaced(q, id) ==
    /\ last'.op \in {"enqueue", "enqueue_at"}
    /\ last'.q = q
    /\ last'.id = id

\* C4: terminal statuses are absorbing: no step changes the status of a job whose
\* status is FINISHED, FAILED, STOPPED or CANCELED.
C4_TerminalAbsorbing ==
    [][\A q \in QueueNames : \A id \in DOMAIN q_jobs[q] :
          (q_jobs[q][id].status \in TerminalStatus
           /\ id \in DOMAIN q_jobs'[q] /\ ~Replaced(q, id))
          => q_jobs'[q][id].status = q_jobs[q][id].status]_vars

\* C5: registry exclusivity: for every queue and every id, the id is a member of at
\* most one of the queue's six phase registries.
C5_RegistryExclusivity ==
    \A q \in QueueNames : \A id \in Ids :
        Cardinality({t \in RegistryTypes : id \in index[<<t, q>>]}) <= 1

\* the step is one of work(burst=True), stop_rq_job, requeue_rq_job, enqueue_rq_job
DrainOrJobOpStep ==
    \/ pc = "work" /\ log' # log
    \/ last'.op \in {"stop_rq_job", "requeue_rq_job", "enqueue_rq_job"}

\* C6: every status change made by work(burst=True), stop_rq_job, requeue_rq_job or
\* enqueue_rq_job leaves the job's id out of the registry of the old phase and in
\* the registry of the new phase (where the phase has a registry).
C6_TransitionPairedWithRegistry ==
    [][DrainOrJobOpStep =>
         \A q \in QueueNames : \A id \in DOMAIN q_jobs[q] \cap DOMAIN q_jobs'[q] :
            LET old == q_jobs[q][id].status
                new == q_jobs'[q][id].status
            IN old # new =>
                 /\ RegistryOf(new) # None => id \in index'[<<RegistryOf(new), q>>]
                 /\ RegistryOf(old) # None => id \notin index'[<<RegistryOf(old), q>>]]_vars

\* C7: for every job, ended_at is set if and only if its status is one of FINISHED,
\* FAILED, STOPPED, CANCELED.
C7_EndedAtIffTerminal ==
    \A q \in QueueNames : \A id \in DOMAIN q_jobs[q] :
        (q_jobs[q][id].ended_at # None) <=> (q_jobs[q][id].status \in TerminalStatus)

\* C8: the job Queue.enqueue returns is DEFERRED with enqueued_at unset when
\* depends_on was given, and QUEUED with enqueued_at set otherwise.
C8_EnqueueInitialStatus ==
    last.op = "enqueue" =>
        LET job == q_jobs[last.q][last.id] IN
        IF last.arg # None
        THEN job.status = DEFERRED /\ job.enqueued_at = None
        ELSE job.status = QUEUED /\ job.enqueued_at # None

\* an enqueue with depends_on has returned its job, taking the place of an id held
\* before (two ordering entries for it), and one without depends_on is held too
C8_Witness ==
    /\ last.op = "enqueue"
    /\ last.arg # None
    /\ q_jobs[last.q][last.id].status = DEFERRED
    /\ \E q \in QueueNames : \E id \in DOMAIN q_jobs[q] :
          q_jobs[q][id].status = QUEUED /\ q_jobs[q][id].enqueued_at = Now

\* C9: the job Queue.enqueue_at returns has status SCHEDULED.
C9_EnqueueAtScheduled ==
    last.op = "enqueue_at" => q_jobs[last.q][last.id].status = SCHEDULED

\* C10: after Queue.enqueue_at on queue q the new job's id is in q's Scheduled
\* Registry and in no other registry of any queue.
C10_EnqueueAtOnlyScheduledRegistry ==
    last.op = "enqueue_at" =>
        \A k \in RegistryKeys :
            (last.id \in index[k]) <=> (k = <<"ScheduledJobRegistry", last.q>>)

\* the step is one pass of the inner loop of work(burst=True)
DrainStep == pc = "work" /\ Len(log') > Len(log)

\* the target of the job log[i] names was invoked
Invoked(i) == log[i].outcome \in {"returned", "raised"}

\* C11: a drain pass invokes the target of a job only if the job is QUEUED when it
\* is picked up; a job that is DEFERRED or SCHEDULED then is not executed and keeps
\* its status.
C11_DrainRunsOnlyReadyJobs ==
    [][DrainStep =>
         LET inv == log'[Len(log')]
             before == q_jobs[inv.q][inv.id]
         IN /\ inv.outcome \in {"returned", "raised"} => before.status = QUEUED
            /\ before.status \in {DEFERRED, SCHEDULED} =>
                   q_jobs'[inv.q][inv.id].status = before.status]_vars

\* C12: a job D that the target of a job of queue q enqueues to q while
\* work(burst=True) drains q is not executed within that call, and D is still
\* QUEUED when the call has returned.
C12_SnapshotIsolationSameQueue ==
    \A i \in 1..Len(log) :
        (log[i].spawn_id # None /\ log[i].spawn_q = log[i].q) =>
            /\ \A k \in 1..Len(log) :
                   ~(log[k].q = log[i].spawn_q /\ log[k].id = log[i].spawn_id)
            /\ Returned => q_jobs[log[i].spawn_q][log[i].spawn_id].status = QUEUED

\* a drain of a worker of two queues has returned; in it the target of a job of
\* the first queue enqueued a job to that queue, which is held, QUEUED, in the
\* queue's ordering
C12_Witness ==
    /\ Returned
    /\ \E i \in 1..Len(log) :
          /\ log[i].spawn_id # None
          /\ log[i].spawn_q = log[i].q
          /\ log[i].q = "default"
          /\ \E k \in 1..Len(q_deque[log[i].q]) : q_deque[log[i].q][k] = log[i].spawn_id
          /\ q_jobs[log[i].spawn_q][log[i].spawn_id].status = QUEUED
          /\ q_jobs[log[i].q][log[i].id].status = FINISHED
    /\ \E w \in DOMAIN WORKERS : Len(WORKERS[w].queues) = 2

\* C13: a job enqueued to a queue of the worker after work(burst=True) began (by a
\* target of that call) is not executed within that call.
C13_MidDrainEnqueueExcluded ==
    \A i \in 1..Len(log) :
        log[i].spawn_id # None =>
            \A k \in 1..Len(log) :
                ~(log[k].q = log[i].spawn_q /\ log[k].id = log[i].spawn_id)

\* C14: within one work(burst=True) call the target of each job is invoked at most
\* once.
C14_NoJobStartedTwice ==
    \A i \in 1..Len(log) : \A k \in 1..Len(log) :
        (i < k /\ Invoked(i) /\ Invoked(k)) =>
            ~(log[i].q = log[k].q /\ log[i].id = log[k].id)

C16_NotCallableSkipped ==
    [][(DrainStep /\ log'[Len(log')].outcome = "skipped") =>
         LET inv == log'[Len(log')] IN
         q_jobs'[inv.q][inv.id] = q_jobs[inv.q][inv.id]]_vars

\* C17: every job whose target a drain pass invoked was set STARTED (started_at
\* set) on the way.
C17_StartedBeforeInvoked ==
    \A i \in 1..Len(log) :
        Invoked(i) => q_jobs[log[i].q][log[i].id].started_at # None

\* C18: when work(burst=True) returns, the Started Registry of every queue of the
\* worker is empty.
C18_StartedRegistryEmptyAfterDrain ==
    [][(pc = "work" /\ pc' = "idle") =>
         \A i \in 1..Len(WORKERS[cur.w].queues) :
            index'[<<"StartedJobRegistry", WORKERS[cur.w].queues[i]>>] = {}]_vars

\* Store as the step leaves it
StoreAfter == [QUEUES |-> QUEUES', jobs |-> q_jobs', deque |-> q_deque',
               index |-> index', used |-> used']

\* the step is an enqueue or enqueue_at call on the queue last' names
EnqueueStep ==
    /\ last'.op \in {"enqueue", "enqueue_at"}
    /\ q_deque'[last'.q] # q_deque[last'.q]

\* C19: with enqueues only, Queue.jobs lists the jobs in the order they were
\* enqueued, each once: every enqueue leaves the list as it was, with the new job
\* after it, and the new job is none of the entries before.
C19_FIFO ==
    [][EnqueueStep =>
         LET q == last'.q
             old == Queue_jobs(Store, q)
             new == Queue_jobs(StoreAfter, q)
         IN /\ new = Append(old, last'.id)
            /\ \A k \in 1..Len(old) : new[k] # last'.id]_vars

\* C20: q.fetch_job(J.id) right after the enqueue on q that returned J finds a job
\* with J's id, origin q's name, and the args and kwargs the enqueue was given for
\* the target.
C20_EnqueueFetchRoundTrip ==
    [][(/\ last.op = "enqueue"
        /\ last'.op = "fetch_job"
        /\ last'.q = last.q
        /\ last'.id = last.id) =>
         /\ last'.arg.found
         /\ last'.arg.job.id = last.id
         /\ last'.arg.job.origin = last.q
         /\ last'.arg.job.args = last.arg.args
         /\ last'.arg.job.kwargs = last.arg.kwargs]_vars

\* fetch_job has found, in queue "high", a job enqueued with a positional and a
\* keyword argument for the target and with depends_on, under an id given twice
C20_Witness ==
    /\ last.op = "fetch_job"
    /\ last.q = "high"
    /\ last.arg.found
    /\ last.arg.job.args = <<"a">>
    /\ DOMAIN last.arg.job.kwargs = {"x"}
    /\ last.arg.job.status = DEFERRED
    /\ last.arg.job.origin = "high"
    /\ Len(q_deque["high"]) = 2
    /\ Cardinality(DOMAIN q_jobs["high"]) = 1

\* C21: fetch_job changes no queue ordering, mapping, job field or registry
\* membership, its answer is the Job the mapping holds under the id (absent when
\* it holds none), and a second call with the same id gives the answer of the
\* first.
C21_FetchJobPure ==
    [][last'.op = "fetch_job" =>
         /\ q_jobs' = q_jobs
         /\ q_deque' = q_deque
         /\ index' = index
         /\ last'.arg.found <=> last'.id \in DOMAIN q_jobs[last'.q]
         /\ last'.arg.found => last'.arg.job = q_jobs[last'.q][last'.id]
         /\ (last.op = "fetch_job" /\ last.q = last'.q /\ last.id = last'.id) =>
                last'.arg = last.arg]_vars

\* fetch_job has found a QUEUED job of queue "default", which holds two jobs
C21_Witness ==
    /\ last.op = "fetch_job"
    /\ last.q = "default"
    /\ last.arg.found
    /\ last.arg.job.status = QUEUED
    /\ last.arg.job = q_jobs["default"][last.id]
    /\ Cardinality(DOMAIN q_jobs["default"]) = 2

\* how often id occurs in the ordering seq
Occurrences(seq, id) == Cardinality({k \in 1..Len(seq) : seq[k] = id})

\* C22: no id is in the ordering or mapping of two queues, and an id in a queue's
\* mapping occurs exactly once in that queue's ordering.
C22_UniqueOwnership ==
    \A id \in Ids :
        /\ Cardinality({q \in QueueNames :
                           id \in DOMAIN q_jobs[q] \/ Occurrences(q_deque[q], id) > 0}) <= 1
        /\ \A q \in QueueNames :
               id \in DOMAIN q_jobs[q] => Occurrences(q_deque[q], id) = 1

\* C23: a get_statistics call changes no ordering, mapping, job, registry, nor
\* the directories of queues and workers, and its per-queue figures are the
\* cardinalities of the mapping and of the six registries.
C23_StatisticsPureProjection ==
    [][last'.op = "get_statistics" =>
         /\ UNCHANGED <<QUEUES, q_jobs, q_deque, index, WORKERS>>
         /\ \A i \in 1..Len(QUEUES_LIST) :
               LET st == get_statistics(Store).queues[i]
                   q == QUEUES_LIST[i]
               IN /\ st.jobs = Cardinality(DOMAIN q_jobs[q])
                  /\ st.started_jobs = Cardinality(index[<<"StartedJobRegistry", q>>])
                  /\ st.failed_jobs = Cardinality(index[<<"FailedJobRegistry", q>>])
                  /\ st.finished_jobs = Cardinality(index[<<"FinishedJobRegistry", q>>])
                  /\ st.deferred_jobs = Cardinality(index[<<"DeferredJobRegistry", q>>])
                  /\ st.scheduled_jobs = Cardinality(index[<<"ScheduledJobRegistry", q>>])
                  /\ st.canceled_jobs = Cardinality(index[<<"CanceledJobRegistry", q>>])]_vars

\* C24: the workers figure of get_statistics is the number of workers in the
\* worker directory.
C24_StatisticsWorkerCount ==
    get_statistics(Store).workers = Worker_count

\* C25: the Queue of a name, once created, stays the Queue of that name: a call
\* that enqueues to it adds its job to the jobs held (all still there, unchanged)
\* and touches no other queue, and no other call changes a mapping or an ordering.
C25_QueueSingleton ==
    [][/\ QUEUES \subseteq QUEUES'
       /\ IF last'.op = "enqueue" /\ q_deque' # q_deque
          THEN /\ last'.id \in DOMAIN q_jobs'[last'.q]
               /\ \A id \in DOMAIN q_jobs[last'.q] \ {last'.id} :
                      /\ id \in DOMAIN q_jobs'[last'.q]
                      /\ q_jobs'[last'.q][id] = q_jobs[last'.q][id]
               /\ \A q \in QueueNames \ {last'.q} :
                      q_jobs'[q] = q_jobs[q] /\ q_deque'[q] = q_deque[q]
          ELSE q_jobs' = q_jobs /\ q_deque' = q_deque]_vars

\* a job enqueued through one get_queue("default") call is found through a later
\* one; queue "high" holds another job, under another id
C25_Witness ==
    /\ last.op = "fetch_job"
    /\ last.q = "default"
    /\ last.arg.found
    /\ Len(q_deque["default"]) = 1
    /\ last.id = q_deque["default"][1]
    /\ Len(q_deque["high"]) = 1
    /\ q_deque["high"][1] # last.id
    /\ QUEUES = {"default", "high"}

\* C26: a get_worker call leaves every Worker of the directory the one it was;
\* for a name the directory holds it returns that Worker, otherwise the Worker it
\* has put there.
C26_WorkerSingleton ==
    [][last'.op = "get_worker" =>
         LET worker_name == IF last'.arg # None THEN last'.arg ELSE last'.q IN
         /\ \A n \in DOMAIN WORKERS : n \in DOMAIN WORKERS' /\ WORKERS'[n] = WORKERS[n]
         /\ DOMAIN WORKERS' = DOMAIN WORKERS \cup {worker_name}]_vars

\* get_worker("high", name="default") has returned the Worker that an earlier
\* call created under the name for queue "default"
C26_Witness ==
    /\ last.op = "get_worker"
    /\ last.q = "high"
    /\ last.arg = "default"
    /\ "default" \in DOMAIN WORKERS
    /\ WORKERS["default"].queues = <<"default">>

\* C27: a work call without burst invokes no target and changes no job, queue,
\* registry or worker.
C27_WorkWithoutBurstNoOp ==
    [][(last'.op = "work" /\ last'.arg = "False") =>
         /\ UNCHANGED <<QUEUES, q_jobs, q_deque, index, WORKERS, used, pc, cur>>
         /\ log' = <<>>]_vars

\* work() without burst has returned while the worker's queue holds a QUEUED job
C27_Witness ==
    /\ last.op = "work"
    /\ last.arg = "False"
    /\ pc = "idle"
    /\ \E w \in DOMAIN WORKERS :
          LET q == WORKERS[w].queues[1] IN
          /\ Len(q_deque[q]) = 2
          /\ \E id \in DOMAIN q_jobs[q] : q_jobs[q][id].status = QUEUED

\* C28: after Queue.empty() the queue's ordering and mapping are empty: jobs is the
\* empty list, count is 0 and fetch_job finds no id.
C28_EmptyClearsQueue ==
    last.op = "empty" =>
        /\ q_deque[last.q] = <<>>
        /\ DOMAIN q_jobs[last.q] = {}
        /\ Queue_jobs(Store, last.q) = <<>>
        /\ Queue_count(Store, last.q) = 0
        /\ \A id \in Ids : ~Queue_fetch_job(Store, last.q, id).found

\* Queue.empty() has returned on queue "default", to which jobs were enqueued
\* before (one by enqueue_at); queue "high" still holds a job
C28_Witness ==
    /\ last.op = "empty"
    /\ last.q = "default"
    /\ index[<<"ScheduledJobRegistry", "default">>] # {}
    /\ q_deque["default"] = <<>>
    /\ DOMAIN q_jobs["high"] # {}

\* C29: a job's result is set only while its status is FINISHED and its error text
\* only while its status is FAILED.
C29_ResultAndErrorMatchStatus ==
    \A q \in QueueNames : \A id \in DOMAIN q_jobs[q] :
        /\ q_jobs[q][id].result # None => q_jobs[q][id].status = FINISHED
        /\ q_jobs[q][id].exc_info # None => q_jobs[q][id].status = FAILED

\* C30: a restart of the process leaves every queue's durable ordering and every
\* registry's membership what they were.
C30_PersistedLayoutSurvivesRestart ==
    [][last'.op = "restart" => q_deque' = q_deque /\ index' = index]_vars

\* the process has been restarted with two entries in the ordering of "default"
\* and a member in its Scheduled Registry; the directories are empty
C30_Witness ==
    /\ last.op = "restart"
    /\ Len(q_deque["default"]) = 2
    /\ index[<<"ScheduledJobRegistry", "default">>] # {}
    /\ QUEUES = {}
    /\ DOMAIN q_jobs["default"] = {}

\* the positions of the ordering of q whose id the mapping of q still holds
KeptPositions(q) == {k \in 1..Len(q_deque[q]) : q_deque[q][k] \in DOMAIN q_jobs[q]}

\* C31: Queue.jobs is the Jobs of the ordering entries whose id is in the mapping,
\* in the order of the ordering; the other entries are skipped.
C31_JobsSkipsMissingEntries ==
    \A q \in QueueNames :
        LET jobs == Queue_jobs(Store, q) IN
        /\ Len(jobs) = Cardinality(KeptPositions(q))
        /\ \A k \in KeptPositions(q) :
               jobs[Cardinality({m \in KeptPositions(q) : m <= k})] = q_deque[q][k]

\* delete_rq_job has deleted the Job of the first entry of the ordering of
\* "default"; the Job of the second entry is held
C31_Witness ==
    /\ last.op = "delete_rq_job"
    /\ Len(q_deque["default"]) = 2
    /\ q_deque["default"][1] = last.id
    /\ q_deque["default"][1] \notin DOMAIN q_jobs["default"]
    /\ q_deque["default"][2] \in DOMAIN q_jobs["default"]

\* C32: set_status(s) leaves the job with status s, with enqueued_at set when s is
\* QUEUED, started_at set when s is STARTED, ended_at set when s is FINISHED,
\* FAILED, STOPPED or CANCELED, and every other field as it was, whatever persist
\* is.
C32_SetStatus ==
    [][last'.op = "set_status" =>
         LET old == q_jobs[last'.q][last'.id]
             new == q_jobs'[last'.q][last'.id]
             s == last'.arg.status
         IN /\ new.status = s
            /\ new.enqueued_at = IF s = QUEUED THEN Now ELSE old.enqueued_at
            /\ new.started_at = IF s = STARTED THEN Now ELSE old.started_at
            /\ new.ended_at = IF s \in {FINISHED, FAILED, STOPPED, CANCELED}
                              THEN Now ELSE old.ended_at
            /\ new.created_at = old.created_at
            /\ new.scheduled_at = old.scheduled_at
            /\ new.result = old.result
            /\ new.exc_info = old.exc_info
            /\ \A q \in QueueNames : \A id \in DOMAIN q_jobs[q] :
                   (q # last'.q \/ id # last'.id) => q_jobs'[q][id] = q_jobs[q][id]]_vars

\* set_status(STARTED, persist=False) has returned on a job that was enqueued
\* (enqueued_at set) and is now STARTED, never ended
C32_Witness ==
    /\ last.op = "set_status"
    /\ last.arg.status = STARTED
    /\ ~last.arg.persist
    /\ q_jobs[last.q][last.id].status = STARTED
    /\ q_jobs[last.q][last.id].started_at = Now
    /\ q_jobs[last.q][last.id].enqueued_at = Now
    /\ q_jobs[last.q][last.id].ended_at = None

\* the ids of the jobs of queue q the running work call has processed, in order
LogIds(q) ==
    LET sel == SelectSeq(log, LAMBDA e : e.q = q)
    IN [i \in 1..Len(sel) |-> sel[i].id]

IsPrefix(a, b) == Len(a) <= Len(b) /\ \A i \in 1..Len(a) : a[i] = b[i]

\* C33: while work(burst=True) runs, the jobs processed so far are those of the
\* worker's queues in assignment order: the queues before the current one come
\* first, each with its jobs in the order of Queue.jobs; the current queue's jobs
\* processed and still to come are, in that order, the jobs of Queue.jobs; no job
\* of a later queue has been processed.
C33_DrainOrder ==
    pc = "work" =>
        LET qs == WORKERS[cur.w].queues IN
        /\ \A i \in 1..Len(log) : \A k \in 1..Len(log) :
               i < k => \E a \in 1..Len(qs) : \E b \in a..Len(qs) :
                           qs[a] = log[i].q /\ qs[b] = log[k].q
        /\ \A p \in 1..Len(qs) :
               IF p < cur.qi
               THEN IsPrefix(LogIds(qs[p]), Queue_jobs(Store, qs[p]))
               ELSE IF p = cur.qi
               THEN IsPrefix(LogIds(qs[p]) \o cur.snap, Queue_jobs(Store, qs[p]))
               ELSE LogIds(qs[p]) = <<>>

\* a worker of two queues has processed the job of its first queue, then the job
\* of its second
C33_Witness ==
    /\ pc = "work"
    /\ cur.qi = 2
    /\ Len(log) = 2
    /\ log[1].q = "default"
    /\ log[2].q = "high"
    /\ log[1].id # log[2].id

\* C34: after add(x) on a registry, contains(x) holds and get_job_ids is what it
\* was with x in it, once; after remove(x), contains(x) does not hold and
\* get_job_ids is what it was without x (unchanged when x was no member); every
\* other registry is as it was.
C34_RegistrySetSemantics ==
    [][last'.op \in {"registry_add", "registry_remove"} =>
         LET type == last'.arg
             name == last'.q
             x == last'.id
         IN /\ last'.op = "registry_add" =>
                  /\ Registry_contains(StoreAfter, type, name, x)
                  /\ Registry_get_job_ids(StoreAfter, type, name)
                       = Registry_get_job_ids(Store, type, name) \cup {x}
                  /\ Registry_len(StoreAfter, type, name)
                       = Registry_len(Store, type, name)
                         + (IF Registry_contains(Store, type, name, x) THEN 0 ELSE 1)
            /\ last'.op = "registry_remove" =>
                  /\ ~Registry_contains(StoreAfter, type, name, x)
                  /\ Registry_get_job_ids(StoreAfter, type, name)
                       = Registry_get_job_ids(Store, type, name) \ {x}
            /\ \A k \in RegistryKeys : k # <<type, name>> => index'[k] = index[k]]_vars

\* add has returned for an id that was a member already, while another registry
\* of the class and another of the queue have members of their own
C34_Witness ==
    /\ last.op = "registry_add"
    /\ last.q = "default"
    /\ last.arg = "StartedJobRegistry"
    /\ index[<<"StartedJobRegistry", "default">>] = {last.id}
    /\ index[<<"StartedJobRegistry", "high">>] = Ids \ {last.id}
    /\ index[<<"FailedJobRegistry", "default">>] = Ids

\* C35: monitor_work_horse is three writes, not one: its first statement sets
\* the status FAILED and leaves every registry as it was, its second leaves the
\* Failed registry as it was, so that between the statements (and after an
\* interruption there) the job is FAILED while its id is still in the Started
\* registry or not yet in the Failed registry.
C35_MonitorNotAtomic ==
    [][/\ (pc = "idle" /\ pc' = "monitor_remove") =>
              /\ q_jobs'[last'.q][last'.id].status = FAILED
              /\ index' = index
       /\ (pc = "monitor_remove" /\ pc' = "monitor_add") =>
              /\ q_jobs'[last.q][last.id].status = FAILED
              /\ \A k \in RegistryKeys :
                     k # <<"StartedJobRegistry", last.arg>> => index'[k] = index[k]
              /\ last.id \notin index'[<<"StartedJobRegistry", last.arg>>]
       /\ (pc = "monitor_add" /\ pc' = "idle" /\ last'.op = "monitor_work_horse") =>
              last.id \in index'[<<"FailedJobRegistry", last.arg>>]]_vars

\* monitor_work_horse was interrupted after its first statement: the job is
\* FAILED, its id is still in the Started registry and not in the Failed one
C35_Witness ==
    /\ pc = "idle"
    /\ last.op = "monitor_interrupted"
    /\ q_jobs[last.q][last.id].status = FAILED
    /\ last.id \in index[<<"StartedJobRegistry", last.arg>>]
    /\ last.id \notin index[<<"FailedJobRegistry", last.arg>>]

\* C36: the target of a job is invoked at most once over the job's lifetime: no
\* drain step invokes the target of a job that an earlier invocation has left
\* FINISHED or FAILED, so a second drain invokes nothing.
C36_ExecutedAtMostOnce ==
    [][DrainStep =>
         LET inv == log'[Len(log')]
         IN inv.outcome \in {"returned", "raised"} =>
                q_jobs[inv.q][inv.id].status \notin {FINISHED, FAILED}]_vars

\* C37: without a restart, every id that is a member of a registry of queue q is
\* the id of a Job in q's mapping, also after Queue.empty, delete_rq_job and
\* flushall.
C37_NoDanglingRegistryReferences ==
    \A k \in RegistryKeys : index[k] \subseteq DOMAIN q_jobs[k[2]]

\* C38: the worker get_worker(queue_name, name) returns has the queue queue_name
\* among its queues, also when a worker of that name existed before the call.
C38_GetWorkerServesQueue ==
    last.op = "get_worker" =>
        LET worker_name == IF last.arg # None THEN last.arg ELSE last.q
            queues == WORKERS[worker_name].queues
        IN \E i \in 1..Len(queues) : queues[i] = last.q

\* C39: work(burst=True) terminates when every target returns or raises: each
\* step of the pass either shortens the list of jobs left in the queue being
\* drained or moves on to the worker's next queue, whatever the targets enqueue,
\* and every pass that has begun returns.
C39_BurstTerminates ==
    /\ [][(pc = "work" /\ pc' = "work") =>
              \/ cur'.qi = cur.qi /\ Len(cur'.snap) < Len(cur.snap)
              \/ cur'.qi > cur.qi /\ cur'.qi <= Len(WORKERS[cur.w].queues)]_vars
    /\ (pc = "work") ~> (pc = "idle")

\* a pass has returned in which a target enqueued a job to the queue it was
\* drained from
C39_Witness ==
    /\ Returned
    /\ \E i \in 1..Len(log) :
          /\ log[i].spawn_id # None
          /\ log[i].spawn_q = log[i].q
          /\ Occurrences(q_deque[log[i].q], log[i].spawn_id) = 1

\* the invocations of the finished pass that ended as outcome says
CountInvocations(outcome) ==
    Cardinality({i \in 1..Len(log) : log[i].outcome = outcome})

\* C40: a worker's counters track the outcomes of its invocations: over a
\* work(burst=True) call successful_job_count grows by the number of invocations
\* that returned and failed_job_count by the number that raised.
C40_WorkerCountersTrackOutcomes ==
    [][(pc = "work" /\ pc' = "idle") =>
         /\ WORKERS'[cur.w].successful_job_count
              = WORKERS[cur.w].successful_job_count + CountInvocations("returned")
         /\ WORKERS'[cur.w].failed_job_count
              = WORKERS[cur.w].failed_job_count + CountInvocations("raised")]_vars

=============================================================================
